---- MODULE Spec2Model ----
(***************************************************************************)
(* HB-CLI booster (src/src/index.ts): the registry of Steam sessions, the  *)
(* retry bookkeeping, the reconnect timers, the reconcile pass driven by   *)
(* the 5 second poll of the account store (src/src/config/db.ts), and the  *)
(* process signal handlers.                                                *)
(*                                                                         *)
(* JavaScript objects are shared by reference: the Account object handed   *)
(* to startBoosting is held by the registry entry, by the four event       *)
(* handlers of the client and by every reconnect timer scheduled from      *)
(* them.  The model keeps these objects in `heap` and refers to them by    *)
(* index, so a write through one reference is seen through the others.     *)
(***************************************************************************)
EXTENDS Integers, Sequences, FiniteSets, TLC

\* ------------------------------------------------------------------ bounds
\* SteamUser instances that are open (created and not yet disconnected) at
\* the same time.
MaxClients == 3
\* SteamUser instances created during one run of the booster.
MaxCreated == 3
\* The same, in the scenario of one account that keeps disconnecting.
MaxCreatedBackoff == 7
\* Writes to the accounts table during one run of the booster: writes of the
\* account manager and token updates of the booster itself.
MaxStoreWrites == 1

\* --------------------------------------------------------------- constants
MAX_RETRIES == 5
baseDelay == 60000
ElsewhereDelay == 45 * 60 * 1000
GraceDelay == 2000

NULL == "null"
Users == {"a", "b"}
\* A refresh token that is no token: client.logOn throws on it.
Malformed == "malformed"
\* The n-th token the Steam service issues during a run.
Tokens == << "tok1", "tok2", "tok3" >>

\* Values the manager can store in each reconciled field of a row.
FieldValues ==
  [ password       |-> << "pw1", "pw2" >>,
    games          |-> << <<440>>, <<440, 730>> >>,
    custom_title   |-> << NULL, "Idle" >>,
    appear_offline |-> << FALSE, TRUE >>,
    auto_restarter |-> << FALSE, TRUE >> ]

ConfigFields == DOMAIN FieldValues

\* db.Account as getAccounts returns it.
Account(u, pw, g, t, off, ar, tok) ==
  [ username |-> u, password |-> pw, games |-> g, custom_title |-> t,
    appear_offline |-> off, auto_restarter |-> ar, refreshToken |-> tok ]

NewRow(u, ar, tok) == Account(u, "pw1", <<440>>, NULL, FALSE, ar, tok)

\* Reason codes of a 'disconnected' event (the handler compares the code with
\* EResult.Invalid only) and kinds of an 'error' event.
DisconnectReasons == {"Invalid", "NoConnection"}
ErrorKinds == {"LoggedInElsewhere", "AccountLoginDeniedThrottle", "Other"}

\* Registration order of the two listeners of SIGINT/SIGTERM: the order in
\* which index.ts and config/db.ts run their process.on calls depends on how
\* the build orders the imports of index.ts.
HandlerOrders == {"indexFirst", "dbFirst"}
Signals == {"SIGINT", "SIGTERM"}

VARIABLES
  store,            \* rows of the accounts table, in rowid order
  proc,             \* "init" | "running" | "exited"
  exit,             \* how the process ended
  heap,             \* Account objects retained by the booster
  clients,          \* the registry: Map username -> entry
  retryAttempts,    \* Map username -> number
  steam,            \* the SteamUser instances, by slot
  created,          \* number of SteamUser instances created so far
  timers,           \* pending setTimeout(() => startBoosting(acc, idx), delay)
  lastAccountsJson, \* fingerprint of the last applied snapshot
  writes,           \* writes to the accounts table so far
  throttled,        \* identities throttled since the manager last wrote their row
  out               \* log lines and SteamUser calls of the last step, in order

vars == << store, proc, exit, heap, clients, retryAttempts, steam, created, timers,
           lastAccountsJson, writes, throttled, out >>

\* ----------------------------------------------------------------- helpers
MapRemove(m, k) == [x \in DOMAIN m \ {k} |-> m[x]]
MapPut(m, k, v) == [x \in DOMAIN m \cup {k} |-> IF x = k THEN v ELSE m[x]]
EmptyMap == [x \in {} |-> 0]

Min(S) == CHOOSE x \in S : \A y \in S : x <= y

RECURSIVE Pow2(_)
Pow2(n) == IF n <= 0 THEN 1 ELSE 2 * Pow2(n - 1)

\* retryAttempts.get(username) || 0
RetryGet(r, u) == IF u \in DOMAIN r THEN r[u] ELSE 0

\* JSON.stringify of a number array: "[440,730]" as its tokens.
RECURSIVE JsonItems(_, _)
JsonItems(g, i) ==
  IF i > Len(g) THEN <<>>
  ELSE (IF i = 1 THEN <<>> ELSE <<",">>) \o <<ToString(g[i])>> \o JsonItems(g, i + 1)

JsonGames(g) == <<"[">> \o JsonItems(g, 1) \o <<"]">>

\* JSON.stringify of the account list: one tuple of field texts per account.
JsonAccounts(list) ==
  [ i \in 1..Len(list) |->
      << list[i].username, list[i].password, JsonGames(list[i].games),
         list[i].custom_title, ToString(list[i].appear_offline),
         ToString(list[i].auto_restarter), list[i].refreshToken >> ]

\* One line of the log, or one call on a SteamUser instance: what happened
\* (op), for which username, on which instance (slot, 0 if none), with which
\* Account object (0 if none), and a detail.
Out(op, u, c, o, arg) == [op |-> op, u |-> u, c |-> c, o |-> o, arg |-> arg]

\* A slot of `steam` holding no open instance.
FreeSlot ==
  [ username |-> "-", acc |-> 0, idx |-> 0, attempt |-> 0,
    conn |-> "closed", loggedOff |-> FALSE ]

\* A heap slot holding no retained object.
FREE == Account("-", "-", <<>>, NULL, FALSE, FALSE, NULL)

\* The booster's memory as one value, threaded through the synchronous calls
\* of a handler.  `overflow` is set when a handler would open more SteamUser
\* instances at once than MaxClients, or create more than `cap` in the run;
\* `thrown` when a call has thrown, which ends the synchronous call chain.
MemCap(cap) ==
  [ heap |-> heap, clients |-> clients, retryAttempts |-> retryAttempts,
    steam |-> steam, created |-> created, timers |-> timers, out |-> <<>>,
    cap |-> cap, overflow |-> FALSE, thrown |-> FALSE ]

\* For the handlers that create no instance.
Mem == MemCap(0)

Emit(m, line) == [m EXCEPT !.out = Append(@, line)]

\* stopBoosting's clearTimeout(entry.autoRestartTimeout)
ClearTimeout(ts, handle) == IF handle # NULL THEN ts \ {handle} ELSE ts

\* client.logOff()
LogOff(m, c) ==
  Emit([m EXCEPT !.steam[c] = IF @.conn = "idle" THEN FreeSlot
                              ELSE [@ EXCEPT !.loggedOff = TRUE]],
       Out("logOff", m.steam[c].username, c, m.steam[c].acc, "-"))

\* Faulty variant of StopBoosting: the registry entry is left in place.
StopBoostingKeepsEntry(m, u) ==
  IF u \in DOMAIN m.clients
  THEN LogOff(Emit(m, Out("Logging off", u, m.clients[u].client, m.clients[u].acc, "-")),
              m.clients[u].client)
  ELSE m

\* stopBoosting(username)
StopBoosting(m, u) ==
  IF u \in DOMAIN m.clients
  THEN LET entry == m.clients[u]
           m1 == Emit(m, Out("Logging off", u, entry.client, entry.acc, "-"))
           m2 == [m1 EXCEPT !.timers = ClearTimeout(@, entry.autoRestartTimeout)]
           m3 == LogOff(m2, entry.client)
       IN [ m3 EXCEPT !.clients = MapRemove(@, u),
                      !.retryAttempts = MapRemove(@, u) ]
  ELSE m

\* Faulty variant of LogOnOptions: the password is used whatever the token.
LogOnWithPassword(acc) == [with |-> "password", cred |-> acc.password]

\* The logOn options chosen from the account object.
LogOnOptions(acc) ==
  IF acc.refreshToken # NULL
  THEN [with |-> "refreshToken", cred |-> acc.refreshToken]
  ELSE [with |-> "password", cred |-> acc.password]

\* client.logOn(logOnOptions) throws
LogOnThrows(opts) == opts.cred = Malformed

FreeSlots(st) == {c \in DOMAIN st : st[c].conn = "closed"}

\* Faulty variant of AlreadyStarted: startBoosting has no guard.
NeverStarted(m, u) == FALSE

\* The guard of startBoosting.
AlreadyStarted(m, u) == u \in DOMAIN m.clients

\* startBoosting(acc, idx) with acc the heap object o.
StartBoosting(m, o, idx) ==
  LET u == m.heap[o].username IN
  IF AlreadyStarted(m, u)
  THEN Emit(m, Out("already in progress", u, 0, o, "-"))
  ELSE IF FreeSlots(m.steam) = {} \/ m.created >= m.cap THEN [m EXCEPT !.overflow = TRUE]
  ELSE LET c == Min(FreeSlots(m.steam))
           currentAttempt == RetryGet(m.retryAttempts, u)
           opts == LogOnOptions(m.heap[o])
           m1 == Emit(m, Out("new SteamUser", u, c, o, "-"))
           m2 == IF currentAttempt > 0
                 THEN Emit(m1, Out("Reconnect attempt", u, c, o, ToString(currentAttempt)))
                 ELSE m1
           m3 == [ m2 EXCEPT
                     !.created = @ + 1,
                     !.steam[c] = [ username |-> u, acc |-> o, idx |-> idx,
                                    attempt |-> currentAttempt,
                                    conn |-> "connecting", loggedOff |-> FALSE ],
                     !.clients = MapPut(@, u, [ client |-> c, acc |-> o, idx |-> idx,
                                                isLoggingIn |-> TRUE,
                                                autoRestartTimeout |-> NULL,
                                                isWaitingOnElsewhere |-> FALSE ]) ]
           m4 == Emit(m3, Out("Logging in", u, c, o, opts.with))
       IN IF LogOnThrows(opts)
          THEN [m4 EXCEPT !.steam[c].conn = "idle", !.thrown = TRUE]
          ELSE Emit(m4, Out("logOn", u, c, o, opts.cred))

\* A snapshot object handed to startBoosting becomes a retained heap object,
\* in the first slot that holds none.
AllocSlot(h) ==
  LET free == {o \in 1..Len(h) : h[o] = FREE}
  IN IF free = {} THEN Len(h) + 1 ELSE Min(free)

Alloc(m, acc) ==
  LET o == AllocSlot(m.heap)
  IN [m EXCEPT !.heap = IF o > Len(@) THEN Append(@, acc) ELSE [@ EXCEPT ![o] = acc]]

NeedsRestart(oldAcc, newAcc) ==
  \/ oldAcc.password # newAcc.password
  \/ JsonGames(oldAcc.games) # JsonGames(newAcc.games)
  \/ oldAcc.appear_offline # newAcc.appear_offline
  \/ oldAcc.auto_restarter # newAcc.auto_restarter
  \/ oldAcc.custom_title # newAcc.custom_title

Usernames(list) == {list[i].username : i \in 1..Len(list)}

\* First loop of updateBoosting: stop every registered identity the new
\* snapshot lacks.
RECURSIVE StopRemoved(_, _)
StopRemoved(m, us) ==
  IF us = {} THEN m
  ELSE LET u == CHOOSE x \in us : TRUE
       IN StopRemoved(StopBoosting(Emit(m, Out("removed from database", u, 0, 0, "-")), u),
                      us \ {u})

\* Faulty variant of ReconcileOne: a restart creates and logs on the new
\* instance first and stops the old one afterwards.
ReconcileOneStartsFirst(m, current, newAcc, i) ==
  LET u == newAcc.username IN
  IF u \notin DOMAIN m.clients
  THEN LET o  == AllocSlot(m.heap)
           m1 == Emit(Alloc(m, newAcc), Out("New account", u, 0, o, "-"))
       IN StartBoosting(m1, o, i)
  ELSE IF u \in DOMAIN current /\ NeedsRestart(m.heap[current[u]], newAcc)
  THEN LET o   == AllocSlot(m.heap)
           old == m.clients[u]
           m1  == Emit(Alloc(m, newAcc), Out("Configuration changed", u, 0, o, "-"))
           m2  == [m1 EXCEPT !.retryAttempts = MapRemove(@, u),
                             !.clients = MapRemove(@, u)]
           m3  == StartBoosting(m2, o, i)
       IN LogOff(Emit(m3, Out("Logging off", u, old.client, old.acc, "-")), old.client)
  ELSE m

\* Body of newAccounts.forEach((newAcc, idx) => ...), idx = i - 1.
ReconcileOne(m, current, newAcc, i) ==
  LET u == newAcc.username IN
  IF u \notin DOMAIN m.clients
  THEN LET o  == AllocSlot(m.heap)
           m1 == Emit(Alloc(m, newAcc), Out("New account", u, 0, o, "-"))
       IN StartBoosting(m1, o, i)
  ELSE IF u \in DOMAIN current
  THEN IF NeedsRestart(m.heap[current[u]], newAcc)
       THEN LET o  == AllocSlot(m.heap)
                m1 == Emit(Alloc(m, newAcc), Out("Configuration changed", u, 0, o, "-"))
                m2 == [m1 EXCEPT !.retryAttempts = MapRemove(@, u)]
                m3 == StopBoosting(m2, u)
            IN StartBoosting(m3, o, i)
       ELSE m
  ELSE m

RECURSIVE ReconcileFrom(_, _, _, _)
ReconcileFrom(m, current, newAccounts, i) ==
  IF i > Len(newAccounts) \/ m.thrown THEN m
  ELSE ReconcileFrom(ReconcileOne(m, current, newAccounts[i], i),
                     current, newAccounts, i + 1)

UpdateBoosting(m, newAccounts) ==
  LET current == [u \in DOMAIN m.clients |-> m.clients[u].acc]
      m1 == StopRemoved(m, DOMAIN current \ Usernames(newAccounts))
  IN ReconcileFrom(m1, current, newAccounts, 1)

\* db.getAccounts(): the rows as Account objects.
GetAccounts(rows) == rows

\* Account objects nothing refers to any more are garbage.
Referenced(m) ==
  {m.clients[u].acc : u \in DOMAIN m.clients}
    \cup {m.steam[c].acc : c \in DOMAIN m.steam}
    \cup {t.acc : t \in m.timers}

RECURSIVE Trim(_)
Trim(h) ==
  IF Len(h) > 0 /\ h[Len(h)] = FREE THEN Trim(SubSeq(h, 1, Len(h) - 1)) ELSE h

Collect(m) ==
  Trim([o \in 1..Len(m.heap) |-> IF o \in Referenced(m) THEN m.heap[o] ELSE FREE])

\* Commit the memory value a handler ends with.
Commit(m) ==
  /\ m.overflow = FALSE
  /\ heap' = Collect(m)
  /\ clients' = m.clients
  /\ retryAttempts' = m.retryAttempts
  /\ steam' = m.steam
  /\ created' = m.created
  /\ timers' = m.timers
  /\ out' = m.out

Live(st, c) == st[c].conn \notin {"closed", "idle"} /\ ~st[c].loggedOff

NoExit == [ code |-> -1, cause |-> "-", graceWaited |-> FALSE,
            registered |-> {}, live |-> {} ]

\* Faulty variant of Exit: process.exit returns and the process lives on.
ExitReturns(code, cause, waited, m) ==
  /\ Commit(m)
  /\ UNCHANGED << proc, exit, lastAccountsJson, throttled >>

\* process.exit(code): the process and everything it held in memory is gone;
\* `exit` keeps what the registry and the connections were at that moment.
Exit(code, cause, waited, m) ==
  /\ proc' = "exited"
  /\ exit' = [ code |-> code, cause |-> cause, graceWaited |-> waited,
               registered |-> DOMAIN m.clients,
               live |-> {c \in DOMAIN m.steam : Live(m.steam, c)} ]
  /\ heap' = <<>>
  /\ clients' = EmptyMap
  /\ retryAttempts' = EmptyMap
  /\ steam' = [c \in 1..MaxClients |-> FreeSlot]
  /\ created' = 0
  /\ timers' = {}
  /\ out' = m.out
  /\ throttled' = {}
  /\ lastAccountsJson' = <<>>

\* ------------------------------------------------------------------- Init
InitStores ==
  { << NewRow("a", TRUE, NULL) >>,
    << NewRow("a", TRUE, NULL), NewRow("b", FALSE, "tok0") >> }

\* The process before main() runs.
InitMemory ==
  /\ proc = "init"
  /\ exit = NoExit
  /\ heap = <<>>
  /\ clients = EmptyMap
  /\ retryAttempts = EmptyMap
  /\ steam = [c \in 1..MaxClients |-> FreeSlot]
  /\ created = 0
  /\ timers = {}
  /\ lastAccountsJson = <<>>
  /\ writes = 0
  /\ throttled = {}
  /\ out = <<>>

Init ==
  /\ store \in InitStores
  /\ InitMemory

\* ---------------------------------------------------------------- actions
\* main(): read the store (fatal when it throws), reconcile, remember the
\* fingerprint, start the poll.  A throw of the reconcile pass rejects main's
\* promise: the 'unhandledRejection' handler exits with code 1.
Main(cap) ==
  /\ proc = "init"
  /\ \E ok \in BOOLEAN :
       IF ok
       THEN LET accounts == GetAccounts(store)
                m == UpdateBoosting(Emit(MemCap(cap), Out("Loaded", "-", 0, 0, "-")), accounts)
            IN IF m.thrown
               THEN m.overflow = FALSE /\ Exit(1, "unhandledRejection", FALSE, m)
               ELSE /\ Commit(m)
                    /\ lastAccountsJson' = JsonAccounts(accounts)
                    /\ proc' = "running"
                    /\ UNCHANGED << exit, throttled >>
       ELSE Exit(1, "startup", FALSE, Emit(Mem, Out("CRITICAL", "-", 0, 0, "-")))
  /\ UNCHANGED << store, writes >>

\* Faulty variant of PollBody: the diff runs on every tick.
PollBodyAlways(m, newAccounts, changed) ==
  UpdateBoosting(Emit(m, Out("Database has changed", "-", 0, 0, "-")), newAccounts)

\* The try block of the poll callback.
PollBody(m, newAccounts, changed) ==
  IF changed
  THEN UpdateBoosting(Emit(m, Out("Database has changed", "-", 0, 0, "-")), newAccounts)
  ELSE m

\* Faulty variant of PollCatch: the catch block also drops the timers.
PollCatchDropsTimers(m) ==
  [m EXCEPT !.timers = {}, !.out = Append(@, Out("Error polling", "-", 0, 0, "-"))]

\* The catch block of the poll callback: one log line.
PollCatch(m) == Emit(m, Out("Error polling", "-", 0, 0, "-"))

\* One tick of setInterval(..., 5000): db.getAccounts() throws, or the
\* fingerprint is unchanged (nothing is called or logged), or the reconcile
\* pass runs, to its end or to a throw.
Poll(cap) ==
  /\ proc = "running"
  /\ \E ok \in BOOLEAN :
       LET newAccounts == GetAccounts(store)
           newAccountsJson == JsonAccounts(newAccounts)
           changed == newAccountsJson # lastAccountsJson
           m == PollBody(MemCap(cap), newAccounts, changed)
       IN IF ~ok
          THEN Commit(PollCatch(Mem)) /\ UNCHANGED lastAccountsJson
          ELSE IF ~changed
          THEN UNCHANGED << heap, clients, retryAttempts, steam, created, timers,
                            lastAccountsJson, out >>
          ELSE IF m.thrown
          THEN Commit(PollCatch(m)) /\ UNCHANGED lastAccountsJson
          ELSE Commit(m) /\ lastAccountsJson' = newAccountsJson
  /\ UNCHANGED << store, proc, exit, writes, throttled >>

\* Faulty variant of ResetRetry: the 'loggedOn' handler forgets the count.
KeepRetry(r, u) == r

\* retryAttempts.delete(acc.username) of the 'loggedOn' handler
ResetRetry(r, u) == MapRemove(r, u)

\* client.on('loggedOn')
OnLoggedOn(m, c) ==
  LET u == m.steam[c].username
      o == m.steam[c].acc
      m1 == [ m EXCEPT !.clients = IF u \in DOMAIN @
                                   THEN [@ EXCEPT ![u].isLoggingIn = FALSE] ELSE @,
                       !.retryAttempts = ResetRetry(@, u) ]
      m2 == Emit(m1, Out("Logged in", u, c, o, "-"))
      m3 == Emit(m2, Out("setPersona", u, c, o,
                         IF m.heap[o].appear_offline THEN "Offline" ELSE "Online"))
  IN Emit(m3, Out("gamesPlayed", u, c, o, "-"))

LoggedOn(c) ==
  /\ proc = "running"
  /\ steam[c].conn = "connecting"
  /\ Commit(OnLoggedOn([Mem EXCEPT !.steam[c].conn = "loggedOn"], c))
  /\ UNCHANGED << store, proc, exit, lastAccountsJson, writes, throttled >>

\* Faulty variant of UpdateRefreshToken: the write also stores autoRestart
\* as off.
UpdateRefreshTokenAndFlag(rows, u, tok) ==
  [ i \in 1..Len(rows) |->
      IF rows[i].username = u
      THEN [rows[i] EXCEPT !.refreshToken = tok, !.auto_restarter = FALSE]
      ELSE rows[i] ]

\* db.updateRefreshToken(username, token)
UpdateRefreshToken(rows, u, tok) ==
  [ i \in 1..Len(rows) |->
      IF rows[i].username = u THEN [rows[i] EXCEPT !.refreshToken = tok] ELSE rows[i] ]

\* client.on('refreshToken'): a throw of the store write is an uncaught
\* exception, whose handler exits with code 1.
RefreshToken(c, tok) ==
  /\ proc = "running"
  /\ steam[c].conn = "loggedOn"
  /\ writes < MaxStoreWrites
  /\ tok = Tokens[writes + 1]
  /\ writes' = writes + 1
  /\ LET u == steam[c].username
         o == steam[c].acc
         m == Emit(Mem, Out("Received new refresh token", u, c, o, tok))
     IN \E ok \in BOOLEAN :
          IF ok
          THEN /\ store' = UpdateRefreshToken(store, u, tok)
               /\ Commit([m EXCEPT !.heap[o].refreshToken = tok])
               /\ UNCHANGED << proc, exit, lastAccountsJson, throttled >>
          ELSE /\ Exit(1, "uncaughtException", FALSE, m)
               /\ UNCHANGED store

\* Faulty variant of Throttle: the flag of the account object is left alone.
ThrottleIgnored(acc) == acc

\* acc.auto_restarter = false of the 'error' handler
Throttle(acc) == [acc EXCEPT !.auto_restarter = FALSE]

\* client.on('error')
OnError(m, c, kind) ==
  LET u == m.steam[c].username
      o == m.steam[c].acc
      hasEntry == u \in DOMAIN m.clients
      m0 == Emit([m EXCEPT !.clients = IF hasEntry
                                       THEN [@ EXCEPT ![u].isLoggingIn = FALSE]
                                       ELSE @],
                 Out("Error", u, c, o, kind))
  IN IF kind = "LoggedInElsewhere"
     THEN LogOff([m0 EXCEPT !.clients =
                    IF hasEntry /\ m0.heap[o].auto_restarter
                    THEN [@ EXCEPT ![u].isWaitingOnElsewhere = TRUE]
                    ELSE @], c)
     ELSE IF kind = "AccountLoginDeniedThrottle"
     THEN LET m1 == Emit(m0, Out("Login throttled", u, c, o, "-"))
          IN IF hasEntry THEN [m1 EXCEPT !.heap[o] = Throttle(@)] ELSE m1
     ELSE m0

\* steam-user emits 'error' for a fatal failure: the instance then emits
\* nothing but, possibly, 'disconnected'.
Error(c, kind) ==
  /\ proc = "running"
  /\ steam[c].conn \in {"connecting", "loggedOn"}
  /\ Commit(OnError([Mem EXCEPT !.steam[c].conn = "errored"], c, kind))
  /\ throttled' = IF kind = "AccountLoginDeniedThrottle" /\ steam[c].username \in DOMAIN clients
                  THEN throttled \cup {steam[c].username} ELSE throttled
  /\ UNCHANGED << store, proc, exit, lastAccountsJson, writes >>

\* setTimeout(() => startBoosting(acc, idx), delay)
Timer(o, idx, delay) == [acc |-> o, idx |-> idx, delay |-> delay]

\* Faulty variant of BackoffDelay: the delay grows linearly.
BackoffDelayLinear(currentAttempt) == baseDelay * currentAttempt

\* baseDelay * Math.pow(2, currentAttempt - 1)
BackoffDelay(currentAttempt) == baseDelay * Pow2(currentAttempt - 1)

\* currentAttempt > MAX_RETRIES
RetriesExhausted(currentAttempt) == currentAttempt > MAX_RETRIES

\* Faulty variant of AutoRestarter: every disconnect may reconnect.
AutoRestarterIgnored(acc) == TRUE

\* if (acc.auto_restarter) of the 'disconnected' handler
AutoRestarter(acc) == acc.auto_restarter

\* client.on('disconnected')
OnDisconnected(m, c, eresult) ==
  LET u == m.steam[c].username
      o == m.steam[c].acc
      idx == m.steam[c].idx
      m0 == Emit(m, Out("Disconnected", u, c, o, eresult))
  IN IF u \notin DOMAIN m0.clients THEN m0
     ELSE LET wasWaitingOnElsewhere == m0.clients[u].isWaitingOnElsewhere
              m1 == [m0 EXCEPT !.clients = MapRemove(@, u)]
              currentAttempt == RetryGet(m1.retryAttempts, u) + 1
              delay == BackoffDelay(currentAttempt)
          IN IF ~AutoRestarter(m1.heap[o]) THEN m1
             ELSE IF wasWaitingOnElsewhere
             THEN Emit([m1 EXCEPT !.timers = @ \cup {Timer(o, idx, ElsewhereDelay)}],
                       Out("Logged in elsewhere detected", u, c, o, ToString(ElsewhereDelay)))
             ELSE IF eresult = "Invalid" THEN m1
             ELSE IF RetriesExhausted(currentAttempt)
             THEN Emit([m1 EXCEPT !.retryAttempts = MapRemove(@, u)],
                       Out("Max retries reached", u, c, o, "-"))
             ELSE Emit([m1 EXCEPT !.retryAttempts = MapPut(@, u, currentAttempt),
                                  !.timers = @ \cup {Timer(o, idx, delay)}],
                       Out("Auto-restarting", u, c, o, ToString(delay)))

\* The instance is closed once its 'disconnected' handler has run.
Disconnected(c, eresult) ==
  /\ proc = "running"
  /\ steam[c].conn \notin {"closed", "idle"}
  /\ Commit([OnDisconnected(Mem, c, eresult) EXCEPT !.steam[c] = FreeSlot])
  /\ UNCHANGED << store, proc, exit, lastAccountsJson, writes, throttled >>

\* Faulty variant of TimerFire: the callback of a timer is never run.
TimerNeverFires(t, cap) == FALSE

\* The timer callback runs: startBoosting(acc, idx); a throw is an uncaught
\* exception.
TimerFire(t, cap) ==
  /\ proc = "running"
  /\ t \in timers
  /\ LET m == StartBoosting([MemCap(cap) EXCEPT !.timers = @ \ {t}], t.acc, t.idx)
     IN IF m.thrown
        THEN m.overflow = FALSE /\ Exit(1, "uncaughtException", FALSE, m)
        ELSE Commit(m) /\ UNCHANGED << proc, exit, lastAccountsJson, throttled >>
  /\ UNCHANGED << store, writes >>

\* ------------------------------------------------- the account manager
InStore(u) == \E i \in 1..Len(store) : store[i].username = u

ManagerWrite(u, rows) ==
  /\ proc # "exited"
  /\ writes < MaxStoreWrites
  /\ writes' = writes + 1
  /\ store' = rows
  /\ throttled' = throttled \ {u}
  /\ out' = <<>>
  /\ UNCHANGED << proc, exit, heap, clients, retryAttempts, steam, created, timers,
                  lastAccountsJson >>

\* db.editAccount(username, {field: value})
EditAccount(u, f, v) ==
  /\ \E i \in 1..Len(store) : store[i].username = u /\ store[i][f] # v
  /\ ManagerWrite(u,
       [ i \in 1..Len(store) |->
           IF store[i].username = u THEN [store[i] EXCEPT ![f] = v] ELSE store[i] ])

\* db.deleteAccount(username)
DeleteAccount(u) ==
  /\ InStore(u)
  /\ ManagerWrite(u, SelectSeq(store, LAMBDA r : r.username # u))

\* db.saveAccount(account) of a username the table lacks
SaveAccount(u, ar) ==
  /\ ~InStore(u)
  /\ ManagerWrite(u, Append(store, NewRow(u, ar, "tok0")))

\* ------------------------------------------------------------- signals
SignalNumber(sig) == IF sig = "SIGINT" THEN 2 ELSE 15

RECURSIVE StopAll(_, _)
StopAll(m, us) ==
  IF us = {} THEN m
  ELSE LET u == CHOOSE x \in us : TRUE
       IN StopAll(StopBoosting(m, u), us \ {u})

\* gracefulShutdown(): the exit code when it exits at once, else what it
\* leaves behind when it returns, the grace timer included.
GracefulShutdown(m) ==
  LET allClients == DOMAIN m.clients
      m0 == Emit(m, Out("Shutting down gracefully", "-", 0, 0, "-"))
  IN IF allClients = {}
     THEN [exited |-> TRUE, code |-> 0, mem |-> m0, graceTimer |-> 0]
     ELSE [exited |-> FALSE, code |-> 0, mem |-> StopAll(m0, allClients),
           graceTimer |-> GraceDelay]

\* The listener config/db.ts registers for the signal.
DbSignalExit(sig) == 128 + SignalNumber(sig)

\* Delivery of SIGINT or SIGTERM: the listeners run in registration order,
\* synchronously, until one of them exits the process.
Signal(sig, order) ==
  /\ proc = "running"
  /\ LET g == GracefulShutdown(Mem) IN
     IF order = "dbFirst"
     THEN Exit(DbSignalExit(sig), sig, FALSE, Mem)
     ELSE IF g.exited
     THEN Exit(g.code, sig, FALSE, g.mem)
     ELSE Exit(DbSignalExit(sig), sig, FALSE, g.mem)
  /\ UNCHANGED << store, writes >>

Next ==
  \/ Main(MaxCreated)
  \/ Poll(MaxCreated)
  \/ \E c \in 1..MaxClients : LoggedOn(c)
  \/ \E c \in 1..MaxClients, n \in 1..Len(Tokens) : RefreshToken(c, Tokens[n])
  \/ \E c \in 1..MaxClients, kind \in ErrorKinds : Error(c, kind)
  \/ \E c \in 1..MaxClients, r \in DisconnectReasons : Disconnected(c, r)
  \/ \E t \in timers : TimerFire(t, MaxCreated)
  \/ \E u \in Users, f \in ConfigFields, k \in 1..2 : EditAccount(u, f, FieldValues[f][k])
  \/ \E u \in Users : DeleteAccount(u)
  \/ \E u \in Users, ar \in BOOLEAN : SaveAccount(u, ar)
  \/ \E sig \in Signals, order \in HandlerOrders : Signal(sig, order)

Spec == Init /\ [][Next]_vars

\* The booster of one account, whose operator edits the password, the games
\* or the auto-restart flag of its row, or deletes it.
OneFields == {"password", "games", "auto_restarter"}

InitOne ==
  /\ Init
  /\ store = << NewRow("a", TRUE, NULL) >>

NextOne ==
  \/ Main(MaxCreated)
  \/ Poll(MaxCreated)
  \/ \E c \in 1..MaxClients : LoggedOn(c)
  \/ \E c \in 1..MaxClients, n \in 1..Len(Tokens) : RefreshToken(c, Tokens[n])
  \/ \E c \in 1..MaxClients, kind \in ErrorKinds : Error(c, kind)
  \/ \E c \in 1..MaxClients, r \in DisconnectReasons : Disconnected(c, r)
  \/ \E t \in timers : TimerFire(t, MaxCreated)
  \/ \E f \in OneFields, k \in 1..2 : EditAccount("a", f, FieldValues[f][k])
  \/ DeleteAccount("a")
  \/ \E sig \in Signals, order \in HandlerOrders : Signal(sig, order)

SpecOne == InitOne /\ [][NextOne]_vars

\* One account whose row nobody writes and that may create MaxCreatedBackoff
\* instances: long enough for the retry ceiling to be reached.
NextBackoff ==
  \/ Main(MaxCreatedBackoff)
  \/ Poll(MaxCreatedBackoff)
  \/ \E c \in 1..MaxClients : LoggedOn(c)
  \/ \E c \in 1..MaxClients, kind \in ErrorKinds : Error(c, kind)
  \/ \E c \in 1..MaxClients, r \in DisconnectReasons : Disconnected(c, r)
  \/ \E t \in timers : TimerFire(t, MaxCreatedBackoff)
  \/ \E sig \in Signals, order \in HandlerOrders : Signal(sig, order)

SpecBackoff == InitOne /\ [][NextBackoff]_vars

\* The same account, whose password the manager may change: a reconcile pass
\* can start it again while a reconnect timer is pending.
NextCeiling ==
  \/ Main(MaxCreatedBackoff)
  \/ Poll(MaxCreatedBackoff)
  \/ \E c \in 1..MaxClients : LoggedOn(c)
  \/ \E c \in 1..MaxClients, kind \in ErrorKinds : Error(c, kind)
  \/ \E c \in 1..MaxClients, r \in DisconnectReasons : Disconnected(c, r)
  \/ \E t \in timers : TimerFire(t, MaxCreatedBackoff)
  \/ \E k \in 1..2 : EditAccount("a", "password", FieldValues["password"][k])
  \/ \E sig \in Signals, order \in HandlerOrders : Signal(sig, order)

SpecCeiling == InitOne /\ [][NextCeiling]_vars

\* Two accounts, the first of which has, or is given by the manager, a
\* refresh token client.logOn throws on.
InitThrow ==
  /\ store \in { << NewRow("a", TRUE, Malformed), NewRow("b", FALSE, NULL) >>,
                  << NewRow("a", TRUE, NULL), NewRow("b", FALSE, NULL) >> }
  /\ InitMemory

NextThrow ==
  \/ Main(MaxCreated)
  \/ Poll(MaxCreated)
  \/ \E c \in 1..MaxClients : LoggedOn(c)
  \/ \E c \in 1..MaxClients, kind \in ErrorKinds : Error(c, kind)
  \/ \E c \in 1..MaxClients, r \in DisconnectReasons : Disconnected(c, r)
  \/ \E t \in timers : TimerFire(t, MaxCreated)
  \/ \E u \in Users : EditAccount(u, "refreshToken", Malformed)
  \/ \E sig \in Signals, order \in HandlerOrders : Signal(sig, order)

SpecThrow == InitThrow /\ [][NextThrow]_vars

\* One account whose password the manager may change, with the guarantee of
\* the Node.js event loop that the callback of a pending timer is run while
\* the process lives.
NextLive ==
  \/ Main(MaxCreated)
  \/ Poll(MaxCreated)
  \/ \E c \in 1..MaxClients, r \in DisconnectReasons : Disconnected(c, r)
  \/ \E t \in timers : TimerFire(t, MaxCreated)
  \/ \E k \in 1..2 : EditAccount("a", "password", FieldValues["password"][k])
  \/ \E sig \in Signals, order \in HandlerOrders : Signal(sig, order)

SpecLive ==
  InitOne /\ [][NextLive]_vars /\ WF_vars(\E t \in timers : TimerFire(t, MaxCreated))

\* ------------------------------------------------------------ vocabulary
\* The last step logged `op`, or made the SteamUser call `op`, for username u.
Said(op, u) == \E i \in 1..Len(out) : out[i].op = op /\ out[i].u = u

HowOften(op, u) == Cardinality({i \in 1..Len(out) : out[i].op = op /\ out[i].u = u})

\* Instances of username u on which logOn was issued and that were neither
\* logged off, nor failed fatally, nor disconnected.
LiveClients(u) ==
  {c \in 1..MaxClients : /\ steam[c].username = u
                         /\ steam[c].conn \in {"connecting", "loggedOn"}
                         /\ ~steam[c].loggedOff}

\* Pending timers whose callback starts username u.
TimersOf(u) == {t \in timers : heap[t.acc].username = u}

\* Usernames of a fingerprint, and the fingerprint without its tokens.
Applied(json) == {json[i][1] : i \in 1..Len(json)}
Untokened(json) == [i \in 1..Len(json) |-> SubSeq(json[i], 1, 6)]

\* This step is a reconcile pass of the poll: it applied a new snapshot.
Reconciled ==
  /\ proc = "running"
  /\ proc' = "running"
  /\ lastAccountsJson' # lastAccountsJson

\* This step ran the 'disconnected' handler of instance c, which is the
\* instance of its username's registered session.
SessionDisconnected(c) ==
  /\ Len(out') > 0
  /\ out'[1].op = "Disconnected"
  /\ out'[1].c = c
  /\ steam[c].username \in DOMAIN clients
  /\ clients[steam[c].username].client = c

\* ... and the disconnect is an ordinary one of a session with autoRestart.
OrdinaryDisconnect(c) ==
  /\ SessionDisconnected(c)
  /\ out'[1].arg # "Invalid"
  /\ ~clients[steam[c].username].isWaitingOnElsewhere
  /\ heap[clients[steam[c].username].acc].auto_restarter

\* ---------------------------------------------------------------- claims
\* C1: in every reachable state each identity has at most one live transport
\* client.
AtMostOneSession == \A u \in Users : Cardinality(LiveClients(u)) <= 1

\* C2: a reconcile pass whose snapshot lacks an identity of the previously
\* applied snapshot leaves that identity without registry entry, with its
\* client asked to log off, without retry count and without pending timer.
RemovalStopsCleanly ==
  [][ Reconciled =>
        \A u \in Applied(lastAccountsJson) \ Applied(lastAccountsJson') :
          /\ u \notin DOMAIN clients'
          /\ (u \in DOMAIN clients => steam'[clients[u].client].loggedOff)
          /\ u \notin DOMAIN retryAttempts'
          /\ TimersOf(u)' = {} ]_vars

\* C3: a reconcile pass whose snapshot differs from the previously applied one
\* in refresh tokens only stops no session and starts none.
TokenRotationIsNeutral ==
  [][ (Reconciled /\ Untokened(lastAccountsJson') = Untokened(lastAccountsJson)) =>
        \A i \in 1..Len(out') :
          out'[i].op \notin {"Logging off", "logOff", "new SteamUser", "logOn"} ]_vars

\* C4: a reconcile pass whose snapshot changes password, games, custom_title,
\* appear_offline or auto_restarter of an identity stops that identity's session
\* once, starts it once from the new record, and leaves the registry holding
\* one session for it that carries the new record.
FieldChangeRestarts ==
  [][ Reconciled =>
        \A i \in 1..Len(lastAccountsJson), j \in 1..Len(lastAccountsJson') :
          ( /\ lastAccountsJson[i][1] = lastAccountsJson'[j][1]
            /\ SubSeq(lastAccountsJson[i], 1, 6) # SubSeq(lastAccountsJson'[j], 1, 6) ) =>
            LET u == lastAccountsJson[i][1] IN
            /\ (u \in DOMAIN clients => HowOften("Logging off", u)' = 1)
            /\ HowOften("new SteamUser", u)' = 1
            /\ u \in DOMAIN clients'
            /\ JsonAccounts(<< heap'[clients'[u].acc] >>)[1] = lastAccountsJson'[j] ]_vars

ElsewhereIsolation ==
  [][ /\ \A c \in 1..MaxClients :
           ( /\ SessionDisconnected(c)
             /\ clients[steam[c].username].isWaitingOnElsewhere
             /\ heap[clients[steam[c].username].acc].auto_restarter ) =>
             /\ retryAttempts' = retryAttempts
             /\ timers' = timers \cup
                            {[acc |-> steam[c].acc, idx |-> steam[c].idx, delay |-> 2700000]}
             /\ Cardinality(timers') = Cardinality(timers) + 1
      /\ \A u \in Users :
           (\E t \in timers \cap timers' : t.delay = 2700000 /\ heap[t.acc].username = u) =>
             ~Said("logOn", u)' ]_vars

\* C8: an AccountLoginDeniedThrottle error of a registered session keeps its
\* registry entry and its client (no logOff) and sets auto_restarter of its
\* account object to false, where it stays; the disconnect of a session whose
\* account object has it false removes the entry and schedules no timer.
ThrottleSuppressesReconnect ==
  [][ /\ \A c \in 1..MaxClients :
           LET u == steam[c].username IN
           ( /\ Len(out') > 0
             /\ out'[1] = Out("Error", u, c, steam[c].acc, "AccountLoginDeniedThrottle")
             /\ u \in DOMAIN clients
             /\ clients[u].client = c ) =>
             /\ u \in DOMAIN clients'
             /\ clients'[u].client = c
             /\ clients'[u].acc = clients[u].acc
             /\ ~steam'[c].loggedOff
             /\ ~heap'[clients'[u].acc].auto_restarter
             /\ timers' = timers
      /\ \A o \in DOMAIN heap \cap DOMAIN heap' :
           (heap[o] # FREE /\ heap'[o] # FREE /\ ~heap[o].auto_restarter) =>
             ~heap'[o].auto_restarter
      /\ \A c \in 1..MaxClients :
           ( /\ SessionDisconnected(c)
             /\ ~heap[clients[steam[c].username].acc].auto_restarter ) =>
             /\ steam[c].username \notin DOMAIN clients'
             /\ timers' = timers ]_vars

\* The only instance ever created was throttled while its row asks for
\* autoRestart, and has now disconnected: nothing is registered or scheduled.
ThrottledThenStopped ==
  /\ created = 1
  /\ "a" \in throttled
  /\ \E i \in 1..Len(store) : store[i].username = "a" /\ store[i].auto_restarter
  /\ Len(out) > 0
  /\ out[1].op = "Disconnected"
  /\ out[1].u = "a"
  /\ "a" \notin DOMAIN clients
  /\ timers = {}

\* C9: once an identity was throttled, no connect attempt is made for it
\* until the manager writes its row or the process ends.
ThrottleIsSticky ==
  [][ \A u \in throttled : ~Said("logOn", u)' ]_vars

\* C10: a process ended by SIGINT or SIGTERM ended with code 0, with no
\* session registered, and after the grace window if it stopped any session.
GracefulShutdownOnSignal ==
  (proc = "exited" /\ exit.cause \in Signals) =>
    /\ exit.code = 0
    /\ exit.registered = {}
    /\ (\E i \in 1..Len(out) : out[i].op = "Logging off") => exit.graceWaited

\* Snapshots a reconcile pass may be handed in a state: the rows as stored,
\* none, and the rows with another password for "a".
Snapshots ==
  { GetAccounts(store), <<>>,
    [ i \in 1..Len(store) |->
        IF store[i].username = "a" THEN [store[i] EXCEPT !.password = "pw2"] ELSE store[i] ] }

\* The memory after updateBoosting(A), and after a second updateBoosting(A).
Once(A) == UpdateBoosting(MemCap(MaxCreated), A)
Twice(A) == UpdateBoosting([Once(A) EXCEPT !.out = <<>>], A)

\* C11: a second updateBoosting(A) right after the first one logs and calls
\* nothing and leaves registry, retry counts, instances and timers as the
\* first call left them.
ReconcileIsIdempotent ==
  proc = "running" =>
    \A A \in Snapshots :
      ~Once(A).overflow => Twice(A) = [Once(A) EXCEPT !.out = <<>>]

\* A first pass that stops and starts a session, followed by a second one.
ReconciledTwice ==
  /\ proc = "running"
  /\ \E A \in Snapshots :
       /\ ~Once(A).overflow
       /\ \E i \in 1..Len(Once(A).out) : Once(A).out[i].op = "Logging off"
       /\ \E i \in 1..Len(Once(A).out) : Once(A).out[i].op = "new SteamUser"
       /\ Twice(A).clients = Once(A).clients

\* This step is a reconcile pass: that of main(), or one of the poll.
ReconcilePass ==
  /\ Len(out') > 0
  /\ out'[1].op \in {"Loaded", "Database has changed"}

TokenReceived(c) ==
  /\ Len(out') > 0
  /\ out'[1].op = "Received new refresh token"
  /\ out'[1].c = c

\* C13: a 'refreshToken' event, whether or not the store write succeeds,
\* leaves the process running and the registry and the instances as they
\* were, and sets the token of the in-memory account.
TokenPersistenceIsBestEffort ==
  [][ \A c \in 1..MaxClients :
        TokenReceived(c) =>
          /\ proc' = "running"
          /\ clients' = clients
          /\ steam' = steam
          /\ heap'[steam[c].acc].refreshToken = out'[1].arg ]_vars

\* C14: a 'refreshToken' event whose store write succeeds changes neither
\* registry, instances, retry counts nor timers, and stores the token in the
\* row and in the in-memory account; nothing else changes the token of an
\* account object; a timer-driven connect attempt of an account object that
\* has a token logs on with that token.
TokenRotation ==
  [][ /\ \A c \in 1..MaxClients :
           (TokenReceived(c) /\ proc' = "running") =>
             /\ clients' = clients
             /\ steam' = steam
             /\ retryAttempts' = retryAttempts
             /\ timers' = timers
             /\ heap'[steam[c].acc].refreshToken = out'[1].arg
             /\ \A i \in 1..Len(store') :
                  store'[i].username = steam[c].username =>
                    store'[i].refreshToken = out'[1].arg
      /\ \A o \in DOMAIN heap \cap DOMAIN heap' :
           ( /\ heap[o] # FREE
             /\ heap'[o] # FREE
             /\ heap'[o].refreshToken # heap[o].refreshToken ) =>
             \E c \in 1..MaxClients : TokenReceived(c) /\ steam[c].acc = o
      /\ \A t \in timers \ timers' :
           ( /\ Len(out') > 0
             /\ out'[1].op = "new SteamUser"
             /\ out'[1].o = t.acc
             /\ heap[t.acc].refreshToken # NULL ) =>
             \E i \in 1..Len(out') :
               /\ out'[i].op = "logOn"
               /\ out'[i].o = t.acc
               /\ out'[i].arg = heap[t.acc].refreshToken ]_vars

\* A reconnect timer has just logged on with the token the session received.
ReconnectedWithToken ==
  /\ Len(out) > 0
  /\ out[1].op = "new SteamUser"
  /\ \E i \in 1..Len(out) : out[i].op = "logOn" /\ out[i].arg = Tokens[1]

\* This step is a reconcile pass of the poll whose snapshot differs from the
\* applied one in the row of x and in nothing else.
OnlyRowChanged(x) ==
  /\ Reconciled
  /\ Len(lastAccountsJson') = Len(lastAccountsJson)
  /\ \A i \in 1..Len(lastAccountsJson) :
       /\ lastAccountsJson'[i][1] = lastAccountsJson[i][1]
       /\ lastAccountsJson'[i] # lastAccountsJson[i] => lastAccountsJson[i][1] = x

\* C15: a reconcile pass caused by a change of the row of x alone issues no
\* stop, logOff or start for any other identity y and leaves y's registry
\* entry, retry count and pending timers as they were.
NoDowntimeForOthers ==
  [][ \A x \in Users : \A y \in Users \ {x} :
        OnlyRowChanged(x) =>
          /\ \A i \in 1..Len(out') :
               out'[i].u = y =>
                 out'[i].op \notin {"Logging off", "logOff", "new SteamUser", "logOn"}
          /\ (y \in DOMAIN clients') = (y \in DOMAIN clients)
          /\ y \in DOMAIN clients => clients'[y] = clients[y]
          /\ RetryGet(retryAttempts', y) = RetryGet(retryAttempts, y)
          /\ TimersOf(y)' = TimersOf(y) ]_vars

\* C16: a poll tick that throws, in db.getAccounts or in the reconcile pass,
\* is logged and nothing more: the process keeps running with no exit code,
\* the applied snapshot is retained, the log line is the last thing the tick
\* does, no timer is cancelled or scheduled, a throw of db.getAccounts leaves all of the memory as it
\* was, and the next tick can poll again.
FailingPollIsNotFatal ==
  [][ (\E i \in 1..Len(out') : out'[i].op = "Error polling") =>
        /\ proc' = "running" /\ exit' = exit
        /\ lastAccountsJson' = lastAccountsJson
        /\ out'[Len(out')].op = "Error polling"
        /\ timers' = timers
        /\ Len(out') = 1 =>
             UNCHANGED << heap, clients, retryAttempts, steam, created, store >> ]_vars

\* A poll has failed while the store differs from the applied snapshot, and
\* the process is still running: the next tick finds the change.
FailedPollSurvived ==
  /\ proc = "running"
  /\ Said("Error polling", "-")
  /\ JsonAccounts(GetAccounts(store)) # lastAccountsJson
  /\ timers # {}

\* C17: in every reachable state, startBoosting called with any retained
\* account object whose username has a registry entry creates no SteamUser
\* instance, issues no logOn, does not throw, and leaves the registry (with
\* the account records its entries refer to), the retry counts and the timers
\* as they were.
StartOnExistingIsNoOp ==
  \A o \in DOMAIN heap : \A idx \in 1..Len(store) + 1 :
    (heap[o] # FREE /\ heap[o].username \in DOMAIN clients) =>
      LET m == StartBoosting(MemCap(created + 1), o, idx)
      IN /\ m.clients = clients /\ m.heap = heap
         /\ m.retryAttempts = retryAttempts
         /\ m.steam = steam /\ m.created = created
         /\ m.timers = timers
         /\ ~m.thrown /\ ~m.overflow
         /\ \A i \in 1..Len(m.out) : m.out[i].op = "already in progress"

\* A reconnect timer has fired for an identity that had a registry entry, and
\* the entry is still there.
StartFoundEntry ==
  \E u \in Users : Said("already in progress", u) /\ u \in DOMAIN clients

\* The last step was a stopBoosting that logged instance c off, and this
\* step is the 'loggedOn', 'error' or 'disconnected' handler of c.
LateEvent(c) ==
  /\ steam[c].loggedOff
  /\ \E i \in 1..Len(out) : out[i].op = "Logging off" /\ out[i].c = c
  /\ out' # <<>>
  /\ out'[1].c = c
  /\ out'[1].op \in {"Logged in", "Error", "Disconnected"}

\* C18: an event delivered by an instance that stopBoosting has just logged
\* off declares no presence and no games, and leaves the retry counts, the
\* timers and the registry as they were.
LateEventsAreNoOps ==
  [][ \A c \in 1..MaxClients :
        LateEvent(c) =>
          /\ \A i \in 1..Len(out') : out'[i].op \notin {"setPersona", "gamesPlayed"}
          /\ retryAttempts' = retryAttempts
          /\ timers' = timers
          /\ clients' = clients ]_vars

\* C19: in every reachable state in which a reconnect or cooldown timer of
\* an identity is pending, stopBoosting called for that identity leaves none
\* of its timers pending.
StopCancelsTimer ==
  \A u \in Users :
    TimersOf(u) # {} =>
      LET m == StopBoosting(Mem, u)
      IN {t \in m.timers : m.heap[t.acc].username = u} = {}

\* C20: in every reachable state each identity has at most one pending
\* reconnect or cooldown timer.
AtMostOneTimer == \A u \in Users : Cardinality(TimersOf(u)) <= 1

FingerprintUnchanged == JsonAccounts(GetAccounts(store)) = lastAccountsJson

\* C22: a poll tick whose fingerprint equals the recorded one calls and logs
\* nothing and leaves the registry, the retry counts, the instances and the
\* timers as they are; and while the process runs the recorded fingerprint
\* changes only in a step that ran a reconcile pass to its end, to the fingerprint of the store.
FingerprintSkip ==
  /\ [](FingerprintUnchanged =>
          LET m == PollBody(MemCap(created + 1), GetAccounts(store), FALSE)
          IN /\ m.out = <<>>
             /\ m.clients = clients /\ m.retryAttempts = retryAttempts
             /\ m.timers = timers /\ m.steam = steam /\ m.heap = heap
             /\ m.created = created)
  /\ [][ Reconciled =>
           /\ lastAccountsJson' = JsonAccounts(GetAccounts(store))
           /\ out' # <<>> /\ out'[1].op = "Database has changed"
           /\ \A i \in 1..Len(out') : out'[i].op # "Error polling" ]_vars

\* The fingerprint is unchanged while an identity of the store has no
\* registry entry and a timer is pending: a diff would start it.
IdleTickWithWork ==
  /\ proc = "running"
  /\ FingerprintUnchanged
  /\ timers # {}
  /\ \E i \in 1..Len(store) : store[i].username \notin DOMAIN clients

\* C23: when the registered session of an identity with autoRestart and fewer
\* than MAX_RETRIES retries is disconnected, with any reason code and not
\* after an elsewhere collision, the retry count grows by one and a reconnect
\* timer with the backoff delay of the new count is scheduled.
UnclassifiedDisconnectsBackOff ==
  [][ \A c \in 1..MaxClients :
        LET u == steam[c].username IN
        ( /\ SessionDisconnected(c)
          /\ ~clients[u].isWaitingOnElsewhere
          /\ heap[steam[c].acc].auto_restarter
          /\ RetryGet(retryAttempts, u) < MAX_RETRIES )
        => /\ RetryGet(retryAttempts', u) = RetryGet(retryAttempts, u) + 1
           /\ \E t \in timers' \ timers :
                t.delay = BackoffDelay(RetryGet(retryAttempts, u) + 1) ]_vars

\* C24: when the registered session of an identity whose account object has
\* autoRestart off is disconnected, for any reason and also after an
\* elsewhere collision, its registry entry is removed, no timer is scheduled
\* or cancelled and the retry counts stay as they are.
AutoRestartGovernsReconnect ==
  [][ \A c \in 1..MaxClients :
        (SessionDisconnected(c) /\ ~heap[steam[c].acc].auto_restarter)
        => /\ steam[c].username \notin DOMAIN clients'
           /\ timers' = timers
           /\ retryAttempts' = retryAttempts ]_vars

\* No instance but those of startup was ever created, and the instance of an
\* identity whose row has autoRestart off was disconnected with a reason
\* other than Invalid: the handler did nothing but remove the entry.
StoppedWithoutRestart ==
  \E i \in 1..Len(store) :
    /\ proc = "running" /\ created = Len(store)
    /\ ~store[i].auto_restarter
    /\ out = << Out("Disconnected", store[i].username, i, i, "NoConnection") >>
    /\ store[i].username \notin DOMAIN clients
    /\ TimersOf(store[i].username) = {}
    /\ RetryGet(retryAttempts, store[i].username) = 0

\* C25: when the last step stopped an identity because its retries were
\* exhausted, the next step creates an instance for it only if it is a
\* reconcile pass that found the identity's row changed.
StoppedStaysStopped ==
  [][ \A u \in Users :
        ( /\ Said("Max retries reached", u)
          /\ \E i \in 1..Len(out') : out'[i].op = "new SteamUser" /\ out'[i].u = u )
        => /\ Reconciled
           /\ \A i \in 1..Len(lastAccountsJson) :
                lastAccountsJson[i][1] = u =>
                  \A j \in 1..Len(lastAccountsJson') :
                    lastAccountsJson'[j] # lastAccountsJson[i] ]_vars

\* This step is a 'loggedOn', 'refreshToken', 'error' or 'disconnected'
\* handler of an instance of username x.
TransportEvent(x) ==
  /\ proc = "running"
  /\ out' # <<>>
  /\ out'[1].u = x
  /\ out'[1].op \in {"Logged in", "Received new refresh token", "Error", "Disconnected"}

\* The registry entry with its account record, the retry count and the
\* pending timers of username y are the same after the step.
Untouched(y) ==
  /\ (y \in DOMAIN clients') = (y \in DOMAIN clients)
  /\ y \in DOMAIN clients =>
       /\ clients'[y] = clients[y]
       /\ heap'[clients[y].acc] = heap[clients[y].acc]
  /\ RetryGet(retryAttempts', y) = RetryGet(retryAttempts, y)
  /\ {[h |-> heap'[t.acc], idx |-> t.idx, delay |-> t.delay] : t \in TimersOf(y)'}
       = {[h |-> heap[t.acc], idx |-> t.idx, delay |-> t.delay] : t \in TimersOf(y)}

\* C26: a transport event of an instance of identity x leaves every other
\* identity untouched and the process running.
SessionIsolation ==
  [][ \A x \in Users :
        TransportEvent(x) =>
          /\ proc' = "running"
          /\ \A y \in Users \ {x} : Untouched(y) ]_vars

\* C27: a step of the booster (every step that is not a write of the account
\* manager) leaves the rows of the store as they are, but for the refresh
\* token of the one row whose instance received a token.
StoreWritesAreTokenOnly ==
  [][ (out' # <<>> \/ writes' = writes) =>
        /\ Len(store') = Len(store)
        /\ \A i \in 1..Len(store) :
             /\ store'[i] = [store[i] EXCEPT !.refreshToken = store'[i].refreshToken]
             /\ store'[i].refreshToken # store[i].refreshToken =>
                  /\ out'[1].op = "Received new refresh token"
                  /\ out'[1].u = store[i].username
                  /\ out'[1].arg = store'[i].refreshToken ]_vars

\* The booster has written a token to the row of an identity and a throttle
\* has switched autoRestart off in memory, while the row has it on.
ThrottledInMemoryOnly ==
  \E i \in 1..Len(store) :
    /\ proc = "running"
    /\ store[i].auto_restarter
    /\ \E n \in 1..Len(Tokens) : store[i].refreshToken = Tokens[n]
    /\ store[i].username \in throttled
    /\ \E o \in DOMAIN heap :
         heap[o].username = store[i].username /\ ~heap[o].auto_restarter

\* The last step was the callback of a timer of username u: it found a
\* registry entry, or it created an instance and issued its logOn.
TimerFired(u) ==
  /\ out # <<>>
  /\ out[1].u = u
  /\ \/ out[1].op = "already in progress"
     \/ out[1].op = "new SteamUser" /\ Said("logOn", u)

NoResurrection ==
  [][ \A i \in 1..Len(out') :
        (proc' = "running" /\ out'[i].op \in {"new SteamUser", "logOn"})
          => out'[i].u \in Applied(lastAccountsJson') ]_vars

\* C30: in every reachable state each live instance is the instance of its
\* identity's registry entry.
NoOrphanClients ==
  \A c \in 1..MaxClients :
    (steam[c].conn \in {"connecting", "loggedOn"} /\ ~steam[c].loggedOff)
      => /\ steam[c].username \in DOMAIN clients
         /\ clients[steam[c].username].client = c

\* This step is the callback of a reconnect or cooldown timer that created
\* an instance for username u with the account object o.
StartedByTimer(u, o) ==
  /\ proc' = "running"
  /\ out' # <<>>
  /\ out'[1].op = "new SteamUser"
  /\ out'[1].u = u
  /\ out'[1].o = o

\* C31: a session started by a timer for an identity of the snapshot applied
\* last logs on with an account object that has the password, the games, the
\* title and the appearOffline flag of the identity's row in that snapshot.
NoStaleConfiguration ==
  [][ \A u \in Users : \A o \in DOMAIN heap' :
        (StartedByTimer(u, o) /\ u \in Applied(lastAccountsJson')) =>
          \E i \in 1..Len(lastAccountsJson') :
            /\ lastAccountsJson'[i][1] = u
            /\ lastAccountsJson'[i][2] = heap'[o].password
            /\ lastAccountsJson'[i][3] = JsonGames(heap'[o].games)
            /\ lastAccountsJson'[i][4] = heap'[o].custom_title
            /\ lastAccountsJson'[i][5] = ToString(heap'[o].appear_offline) ]_vars

\* Username x has no registry entry and a reconnect or cooldown timer of it
\* is pending.
Waiting(x) == x \notin DOMAIN clients /\ TimersOf(x) # {}

\* This step is a reconcile pass whose snapshot has the row of x with the
\* configuration fields of the applied one: at most its token differs.
OwnConfigurationKept(x) ==
  /\ Reconciled
  /\ \E i \in 1..Len(lastAccountsJson) : \E j \in 1..Len(lastAccountsJson') :
       /\ lastAccountsJson[i][1] = x
       /\ SubSeq(lastAccountsJson'[j], 1, 6) = SubSeq(lastAccountsJson[i], 1, 6)

\* C32: while an identity waits for its reconnect or cooldown timer, a
\* reconcile pass that finds its configuration fields unchanged creates no
\* instance and issues no logOn for it.
WaitsAreNotShortened ==
  [][ \A x \in Users :
        (Waiting(x) /\ OwnConfigurationKept(x)) =>
          \A i \in 1..Len(out') :
            out'[i].u = x => out'[i].op \notin {"new SteamUser", "logOn"} ]_vars

\* C33: the step in which gracefulShutdown begins creates no instance and
\* issues no logOn, and it ends the process before the grace timer or any
\* other callback can run; an exited process takes no step.
ShutdownIsFinal ==
  [][ /\ (\E i \in 1..Len(out') : out'[i].op = "Shutting down gracefully") =>
           /\ proc' = "exited"
           /\ exit'.cause \in Signals
           /\ ~exit'.graceWaited
           /\ \A i \in 1..Len(out') : out'[i].op \notin {"new SteamUser", "logOn"}
      /\ proc # "exited" ]_vars

\* gracefulShutdown has stopped a live session and the process has ended.
ShutdownBegan ==
  /\ proc = "exited"
  /\ exit.cause \in Signals
  /\ Said("Shutting down gracefully", "-")
  /\ \E i \in 1..Len(out) : out[i].op = "logOff"

====
